---- MODULE Spec2Model ----
(***************************************************************************)
(* Model of the batch operation engine of the file manager                 *)
(* (src/src/futils.py, src/src/ui.py): FileSelector holds the selection,   *)
(* FileExplorer resolves indices to paths, FileManager runs copy_files,    *)
(* move_files and delete_files over the selection with the                 *)
(* ignore / ignore-all / stop error protocol.                              *)
(*                                                                         *)
(* One batch call is a sequence of steps (pc): the destination check and   *)
(* get_and_reset, then per item the path validation, the gateway call and, *)
(* on failure, the error handler.  The calls made to the collaborators     *)
(* (ui.error, ui.error_choice, fs.copy/move/delete) and to _validate_path  *)
(* are recorded, in program order, in the observation variable log.        *)
(***************************************************************************)
EXTENDS Integers, Sequences, FiniteSets, TLC

\* ------------------------------------------------------------------ bounds
\* largest number of indices given to one selection
MaxSel == 3

\* largest number of lines typed at one error_choice prompt
MaxLines == 3

\* largest number of indices given to one selection of the selector on its own
MaxHeld == 2

\* largest number of get_and_reset calls counted since the last selection
MaxGets == 2

\* largest index given to navigate (the smallest is -(MaxIndex + 1))
MaxIndex == 4

\* largest number of navigation calls whose output is recorded
MaxNav == 3

\* ------------------------------------------------------- program constants
\* futils.py:122  len(str(Path(path))) > 255
MaxPathLen == 255

\* ui.py:3-6  class ErrorChoice(IntEnum)
IGNORE == "IGNORE"
IGNORE_ALL == "IGNORE_ALL"
STOP == "STOP"
ErrorChoice == {IGNORE, IGNORE_ALL, STOP}

\* ------------------------------------------------------------ environment
\* The entries of the listed directory (FileExplorer.current_directory_contents
\* joined with current_path): an ordinary file whose path is exactly as long
\* as the limit, one whose path is one character over it, and one that is a
\* symbolic link pointing at itself.
Listing == <<"f1", "long", "loop">>

\* destinations the caller may pass to copy_files / move_files
Dests == {"/dest", "longdest", "nul\\0dest"}

\* len(str(Path(path))): "f1" sits exactly on the limit, "long"/"longdest" one above
PathLen(p) ==
    CASE p = "f1" -> MaxPathLen
      [] p = "long" -> MaxPathLen + 1
      [] p = "longdest" -> MaxPathLen + 1
      [] p = "loop" -> 8
      [] OTHER -> 9

\* Outcomes of Path(path).resolve() (futils.py:126).  pathlib raises
\* ValueError for an embedded NUL; for a symbolic-link loop it raises
\* RuntimeError on the interpreters before 3.13 and returns normally from
\* 3.13 on, so both outcomes are possible for "loop".
Resolve(p) ==
    CASE p = "loop" -> {"RuntimeError", "ok"}
      [] p = "nul\\0dest" -> {"ValueError"}
      [] OTHER -> {"ok"}

\* str(e) of the exceptions that occur
ExcMsg(e) ==
    CASE e = "RuntimeError" -> "Symlink loop"
      [] e = "ValueError" -> "embedded null byte"
      [] e = "PathTooLong" -> "Path too long"
      [] e = "OSError" -> "Disk full"
      [] e = "TimeoutError" -> "Network timeout"
      [] OTHER -> "error"

\* exception classes and their base classes (Python built-in hierarchy)
Bases(e) ==
    CASE e = "PathTooLong" -> {"OSError", "Exception"}
      [] e = "OSError" -> {"OSError", "Exception"}
      [] e = "TimeoutError" -> {"TimeoutError", "OSError", "Exception"}
      [] e = "ValueError" -> {"ValueError", "Exception"}
      [] e = "RuntimeError" -> {"RuntimeError", "Exception"}
      [] OTHER -> {"Exception"}

\* the exception a failing gateway call raises: a timeout on the symbolic
\* link, an OSError ("Disk full") on the other paths
GatewayFailure(path) == IF path = "loop" THEN "TimeoutError" ELSE "OSError"

\* what one gateway call (fs.copy / fs.move / fs.delete) on path can do
GatewayOutcomes(path) == {"ok", GatewayFailure(path)}

\* one recorded call: kind of call, item position (0 = not an item), two
\* arguments and the returned value
Ev(kind, i, a, b, r) == [kind |-> kind, i |-> i, a |-> a, b |-> b, r |-> r]

VARIABLES
    selected_files,     \* FileSelector.selected_files
    ignore_all_errors,  \* FileManager.ignore_all_errors
    pc,                 \* position of the caller / the running batch call
    op,                 \* operation label of the running call: Copy, Move, Delete
    destination,        \* argument of copy_files / move_files ("-" for delete)
    files,              \* local  files = self.sel.get_and_reset()
    idx,                \* position of the for loop in files (1-based)
    success_count,      \* local  success_count
    err,                \* exception caught by  except Exception as e
    result,             \* value returned by the last completed call
    log,                \* calls made during the running / last call, in order
    sel0,               \* selection held when the call was invoked
    flag0,              \* ignore_all_errors when the call was invoked
    retrieved,          \* the call executed get_and_reset
    prevBatch,          \* the operation completed before this call was a batch call
    prevRetrieved,      \* ... and that batch call executed get_and_reset
    prevResult          \* ... and returned this count (-1: none, or it raised)

\* the three components exercised on their own
VARIABLES
    ui_pc,              \* ConsoleUI.error_choice: off, input, returned, raised
    ui_typed,           \* lines read by input() during the call, in order
    ui_ret,             \* value returned by error_choice ("-": none)
    ui_reprompts,       \* number of "Please enter a valid number (0-2)" printed
    ex_indices,         \* argument of the last FileExplorer.subset call
    ex_result,          \* list it returned
    got,                \* list returned by the last direct get_and_reset call
    held0,              \* selected_files just before that call
    gets,               \* direct get_and_reset calls since the last selection
    current_path,       \* FileExplorer.current_path (sequence of names from the root)
    current_directory_contents, \* FileExplorer.current_directory_contents
    nav_op,             \* last explorer call: none, navigate, parent
    nav_index,          \* argument of the last navigate call
    path0,              \* current_path before the last explorer call
    contents0,          \* current_directory_contents before that call
    nav_out             \* what the explorer calls printed, in order

vars == <<selected_files, ignore_all_errors, pc, op, destination, files, idx,
          success_count, err, result, log, sel0, flag0, retrieved,
          prevBatch, prevRetrieved, prevResult,
          ui_pc, ui_typed, ui_ret, ui_reprompts, ex_indices, ex_result,
          got, held0, gets,
          current_path, current_directory_contents, nav_op, nav_index,
          path0, contents0, nav_out>>

\* state of the FileManager and of its caller
managerVars == <<ignore_all_errors, pc, op, destination, files, idx,
                 success_count, err, result, log, sel0, flag0, retrieved,
                 prevBatch, prevRetrieved, prevResult>>

consoleVars == <<ui_pc, ui_typed, ui_ret, ui_reprompts>>

explorerVars == <<ex_indices, ex_result>>

selectorVars == <<got, held0, gets>>

navigatorVars == <<current_path, current_directory_contents, nav_op, nav_index,
                   path0, contents0, nav_out>>

componentVars == <<consoleVars, explorerVars, selectorVars, navigatorVars>>

\* ------------------------------------------------ directory tree browsed
\* the directories of the file system, as paths from the root
Dirs ==
    { << >>, <<"home">>, <<"home", "docs">>, <<"home", "docs", "sub">>,
      <<"home", "pics">>, <<"home", "locked">> }

\* futils.py:54  os.path.expanduser('~')
Home == <<"home">>

\* futils.py:59  os.listdir(path): the names, or PermissionError (ok = FALSE)
ListDir(p) ==
    CASE p = << >> -> [ok |-> TRUE, names |-> <<"home">>]
      [] p = <<"home">> -> [ok |-> TRUE, names |-> <<"notes.txt", "docs", "pics", "locked">>]
      [] p = <<"home", "docs">> -> [ok |-> TRUE, names |-> <<"a.txt", "sub">>]
      [] p = <<"home", "docs", "sub">> -> [ok |-> TRUE, names |-> << >>]
      [] p = <<"home", "pics">> -> [ok |-> TRUE, names |-> <<"x.png">>]
      [] OTHER -> [ok |-> FALSE, names |-> << >>]

\* os.path.isdir
IsDir(p) == p \in Dirs

\* os.path.join(path, name)
Join(p, name) == Append(p, name)

\* os.path.dirname(path); the root is its own parent
Dirname(p) == IF p = << >> THEN << >> ELSE SubSeq(p, 1, Len(p) - 1)

\* --------------------------------------------------------- FileExplorer
\* variant: the lower bound is not tested, a negative index counts from the end
subset_NegativeFromEnd(indices) ==
    LET kept == SelectSeq(indices, LAMBDA index : -Len(Listing) <= index /\ index < Len(Listing))
    IN [k \in 1..Len(kept) |-> Listing[(kept[k] % Len(Listing)) + 1]]

RECURSIVE subset(_)
\* futils.py:94-101
subset(indices) ==
    IF indices = << >> THEN << >>
    ELSE LET index == Head(indices)
             rest == subset(Tail(indices))
         IN IF 0 <= index /\ index < Len(Listing)
            THEN <<Listing[index + 1]>> \o rest
            ELSE rest

\* index lists the user can type: every index of the listing, -1 and len
IndexLists == UNION {[1..n -> -1..Len(Listing)] : n \in 0..MaxSel}

\* --------------------------------------------------------- FileSelector
\* variant: the held list itself is returned, and clearing it empties it
get_and_reset_NoCopy(sel) == [res |-> << >>, selected_files |-> << >>]

\* variant: the held list is returned but not cleared
get_and_reset_NoClear(sel) == [res |-> sel, selected_files |-> sel]

\* futils.py:45-49: the pair (returned list, selected_files afterwards)
get_and_reset(sel) == [res |-> sel, selected_files |-> << >>]

\* --------------------------------------------------------- FileManager
\* futils.py:129  except (OSError, ValueError)
ValidateCatches == {"OSError", "ValueError"}

\* futils.py:172  except Exception
OperationCatches == {"Exception"}

Caught(e, classes) == Bases(e) \cap classes # {}

\* variant: the limit is taken one too high
ValidateRaises_Limit256(path) ==
    IF PathLen(path) > MaxPathLen + 1 THEN {"PathTooLong"}
    ELSE Resolve(path)

\* variant: the length check is missing
ValidateRaises_NoLength(path) == Resolve(path)

\* futils.py:111-131: the exceptions raised inside the try block
ValidateRaises(path) ==
    IF PathLen(path) > MaxPathLen THEN {"PathTooLong"}
    ELSE Resolve(path)

\* variant: an invalid path is rejected without calling ui.error
_validate_path_Silent(path, i) ==
    { IF e = "ok"
      THEN [ret |-> "True", exc |-> "-",
            evs |-> <<Ev("validate", i, path, "-", "True")>>]
      ELSE IF Caught(e, ValidateCatches)
      THEN [ret |-> "False", exc |-> "-",
            evs |-> <<Ev("validate", i, path, "-", "False")>>]
      ELSE [ret |-> "raise", exc |-> e,
            evs |-> <<Ev("validate", i, path, "-", "raise")>>]
      : e \in ValidateRaises(path) }

\* futils.py:111-131: outcomes of _validate_path(path) at item position i:
\* the value returned ("True"/"False") or "raise", and the calls recorded
_validate_path(path, i) ==
    { IF e = "ok"
      THEN [ret |-> "True", exc |-> "-",
            evs |-> <<Ev("validate", i, path, "-", "True")>>]
      ELSE IF Caught(e, ValidateCatches)
      THEN [ret |-> "False", exc |-> "-",
            evs |-> <<Ev("validate", i, path, "-", "False"),
                      Ev("error", i, "Invalid path", ExcMsg(e), "-")>>]
      ELSE [ret |-> "raise", exc |-> e,
            evs |-> <<Ev("validate", i, path, "-", "raise")>>]
      : e \in ValidateRaises(path) }

\* variant: every operation calls fs.move (the call copied from move_files)
GatewayOf_AlwaysMove(o) == "move"

\* the gateway method each operation calls (futils.py:170, 202, 228)
GatewayOf(o) ==
    CASE o = "Copy" -> "copy"
      [] o = "Move" -> "move"
      [] OTHER -> "delete"

GatewayKinds == {"copy", "move", "delete"}

Init ==
    /\ selected_files = << >>
    /\ ignore_all_errors = FALSE
    /\ pc = "idle"
    /\ op = "-"
    /\ destination = "-"
    /\ files = << >>
    /\ idx = 1
    /\ success_count = 0
    /\ err = "-"
    /\ result = 0
    /\ log = << >>
    /\ sel0 = << >>
    /\ flag0 = FALSE
    /\ retrieved = FALSE
    /\ prevBatch = FALSE
    /\ prevRetrieved = FALSE
    /\ prevResult = -1
    /\ ui_pc = "off"
    /\ ui_typed = << >>
    /\ ui_ret = "-"
    /\ ui_reprompts = 0
    /\ ex_indices = << >>
    /\ ex_result = << >>
    /\ got = << >>
    /\ held0 = << >>
    /\ gets = 0
    /\ current_path = Home
    /\ current_directory_contents = ListDir(Home).names
    /\ nav_op = "none"
    /\ nav_index = 0
    /\ path0 = Home
    /\ contents0 = ListDir(Home).names
    /\ nav_out = << >>

AtRest == pc = "idle"

\* futils.py:31-43  FileSelector.select_files_by_indices
Select(indices) ==
    /\ AtRest
    /\ selected_files' = subset(indices)
    /\ pc' = "idle"
    /\ op' = "-"
    /\ destination' = "-"
    /\ files' = << >>
    /\ idx' = 1
    /\ success_count' = 0
    /\ err' = "-"
    /\ result' = 0
    /\ log' = << >>
    /\ sel0' = << >>
    /\ flag0' = FALSE
    /\ retrieved' = FALSE
    /\ prevBatch' = FALSE
    /\ prevRetrieved' = FALSE
    /\ prevResult' = -1
    /\ UNCHANGED <<ignore_all_errors, componentVars>>

\* variant: the count starts at one
InitialCount_One == 0 + 1

\* futils.py:162 (194, 220)  success_count = 0
InitialCount == 0

\* variant: every call starts with the flag cleared
Enter_ResetsFlag(o, dest) ==
    /\ AtRest
    /\ op' = o
    /\ destination' = dest
    /\ sel0' = selected_files
    /\ flag0' = FALSE
    /\ err' = "-"
    /\ idx' = 1
    /\ success_count' = InitialCount
    /\ ignore_all_errors' = FALSE
    /\ UNCHANGED <<prevBatch, prevRetrieved, prevResult, componentVars>>

\* bookkeeping common to the entry of the three operations
Enter(o, dest) ==
    /\ AtRest
    /\ op' = o
    /\ destination' = dest
    /\ sel0' = selected_files
    /\ flag0' = ignore_all_errors
    /\ err' = "-"
    /\ idx' = 1
    /\ success_count' = InitialCount
    /\ UNCHANGED <<ignore_all_errors, prevBatch, prevRetrieved, prevResult,
                   componentVars>>

\* futils.py:162-163 / 194-195 / 220-221
Retrieve(evs) ==
    /\ files' = get_and_reset(selected_files).res
    /\ selected_files' = get_and_reset(selected_files).selected_files
    /\ retrieved' = TRUE
    /\ log' = evs
    /\ pc' = "loop"
    /\ UNCHANGED result

\* variant: the batch is retrieved before the destination is checked
BeginWithDestination_RetrieveFirst(o, dest) ==
    /\ Enter(o, dest)
    /\ \E v \in _validate_path(dest, 0) :
         CASE v.ret = "True" -> Retrieve(v.evs)
           [] v.ret = "False" ->
                /\ pc' = "done"
                /\ result' = 0
                /\ log' = v.evs
                /\ retrieved' = FALSE
                /\ files' = << >>
                /\ selected_files' = << >>
           [] OTHER ->
                /\ pc' = "raised"
                /\ log' = v.evs
                /\ retrieved' = FALSE
                /\ files' = << >>
                /\ selected_files' = << >>
                /\ UNCHANGED result

\* futils.py:159-163 (copy_files) and 191-195 (move_files)
BeginWithDestination(o, dest) ==
    /\ Enter(o, dest)
    /\ \E v \in _validate_path(dest, 0) :
         CASE v.ret = "True" -> Retrieve(v.evs)
           [] v.ret = "False" ->
                /\ pc' = "done"
                /\ result' = 0
                /\ log' = v.evs
                /\ retrieved' = FALSE
                /\ files' = << >>
                /\ UNCHANGED selected_files
           [] OTHER ->
                /\ pc' = "raised"
                /\ log' = v.evs
                /\ retrieved' = FALSE
                /\ files' = << >>
                /\ UNCHANGED <<selected_files, result>>

copy_files(dest) == BeginWithDestination("Copy", dest)

move_files(dest) == BeginWithDestination("Move", dest)

\* futils.py:220-221
delete_files ==
    /\ Enter("Delete", "-")
    /\ Retrieve(<< >>)

\* futils.py:165-167 (197-199, 223-225)
\* for file in files: if not self._validate_path(file): continue
ValidateItem ==
    /\ pc = "loop"
    /\ idx <= Len(files)
    /\ \E v \in _validate_path(files[idx], idx) :
         /\ log' = log \o v.evs
         /\ CASE v.ret = "True" -> pc' = "op" /\ idx' = idx
              [] v.ret = "False" -> pc' = "loop" /\ idx' = idx + 1
              [] OTHER -> pc' = "raised" /\ idx' = idx
    /\ UNCHANGED <<selected_files, ignore_all_errors, op, destination, files,
                   success_count, err, result, sel0, flag0, retrieved,
                   prevBatch, prevRetrieved, prevResult, componentVars>>

\* variant: the increment is missing
Incr_NoCount(c) == c

\* futils.py:171  success_count += 1
Incr(c) == c + 1

\* futils.py:169-172 (201-204, 227-230)
\* try: self.fs.copy(file, destination); success_count += 1
\* except Exception as e: ...
GatewayCall ==
    /\ pc = "op"
    /\ \E out \in GatewayOutcomes(files[idx]) :
         /\ log' = Append(log, Ev(GatewayOf(op), idx, files[idx], destination,
                                  IF out = "ok" THEN "ok" ELSE "fail"))
         /\ IF out = "ok"
            THEN /\ success_count' = Incr(success_count)
                 /\ idx' = idx + 1
                 /\ pc' = "loop"
                 /\ err' = "-"
            ELSE /\ success_count' = success_count
                 /\ idx' = idx
                 /\ err' = out
                 /\ pc' = IF Caught(out, OperationCatches) THEN "handle" ELSE "raised"
    /\ UNCHANGED <<selected_files, ignore_all_errors, op, destination, files,
                   result, sel0, flag0, retrieved, prevBatch, prevRetrieved, prevResult,
                   componentVars>>

\* variant: delete_files alone does not consult the flag
_handle_operation_error_DeleteAlwaysPrompts(flag, operation, e, i) ==
    IF ~flag \/ operation = "Delete"
    THEN { [choice |-> c,
            evs |-> <<Ev("error", i, operation, ExcMsg(e), "-"),
                      Ev("prompt", i, operation, ExcMsg(e), c)>>]
           : c \in ErrorChoice }
    ELSE { [choice |-> IGNORE_ALL,
            evs |-> <<Ev("error", i, operation, ExcMsg(e), "-")>>] }

\* variant: the flag is not consulted, every failure prompts
_handle_operation_error_AlwaysPrompt(flag, operation, e, i) ==
    { [choice |-> c,
       evs |-> <<Ev("error", i, operation, ExcMsg(e), "-"),
                 Ev("prompt", i, operation, ExcMsg(e), c)>>]
      : c \in ErrorChoice }

\* variant: with the flag set the failure is swallowed without a report
_handle_operation_error_QuietWhenIgnoring(flag, operation, e, i) ==
    IF ~flag
    THEN { [choice |-> c,
            evs |-> <<Ev("error", i, operation, ExcMsg(e), "-"),
                      Ev("prompt", i, operation, ExcMsg(e), c)>>]
           : c \in ErrorChoice }
    ELSE { [choice |-> IGNORE_ALL, evs |-> << >>] }

\* futils.py:133-148: outcomes of _handle_operation_error(operation, error)
\* for the failure of item i: the decision returned and the calls recorded.
\* ui.error_choice returns a member of ErrorChoice.
_handle_operation_error(flag, operation, e, i) ==
    IF ~flag
    THEN { [choice |-> c,
            evs |-> <<Ev("error", i, operation, ExcMsg(e), "-"),
                      Ev("prompt", i, operation, ExcMsg(e), c)>>]
           : c \in ErrorChoice }
    ELSE { [choice |-> IGNORE_ALL,
            evs |-> <<Ev("error", i, operation, ExcMsg(e), "-")>>] }

\* variant: the STOP branch is missing, the loop goes on
LoopExit_Never(choice) == FALSE

\* futils.py:175-176  if choice == ErrorChoice.STOP: break
LoopExit(choice) == choice = STOP

\* variant: IGNORE_ALL is not remembered
FlagAfter_NeverSet(flag, choice) == flag

\* variant: IGNORE is remembered like IGNORE_ALL
FlagAfter_SetOnIgnore(flag, choice) == IF choice \in {IGNORE, IGNORE_ALL} THEN TRUE ELSE flag

\* futils.py:177-178  elif choice == ErrorChoice.IGNORE_ALL: self.ignore_all_errors = True
FlagAfter(flag, choice) == IF choice = IGNORE_ALL THEN TRUE ELSE flag

\* variant: after IGNORE the failed item is tried a second time
HandleError_RetryOnce ==
    /\ pc = "handle"
    /\ \E h \in _handle_operation_error(ignore_all_errors, op, err, idx) :
         /\ log' = log \o h.evs
         /\ IF LoopExit(h.choice)
            THEN /\ pc' = "done"
                 /\ result' = success_count
                 /\ idx' = idx
                 /\ UNCHANGED ignore_all_errors
            ELSE /\ IF h.choice = IGNORE /\ Cardinality({g \in 1..Len(log) : log[g].kind \in GatewayKinds /\ log[g].i = idx}) = 1
                    THEN pc' = "op" /\ idx' = idx
                    ELSE pc' = "loop" /\ idx' = idx + 1
                 /\ ignore_all_errors' = FlagAfter(ignore_all_errors, h.choice)
                 /\ UNCHANGED result
    /\ err' = "-"
    /\ UNCHANGED <<selected_files, op, destination, files, success_count,
                   sel0, flag0, retrieved, prevBatch, prevRetrieved, prevResult,
                   componentVars>>

\* futils.py:173-178 with _handle_operation_error (133-148); after break the
\* function returns success_count (line 180)
HandleError ==
    /\ pc = "handle"
    /\ \E h \in _handle_operation_error(ignore_all_errors, op, err, idx) :
         /\ log' = log \o h.evs
         /\ IF LoopExit(h.choice)
            THEN /\ pc' = "done"
                 /\ result' = success_count
                 /\ idx' = idx
                 /\ UNCHANGED ignore_all_errors
            ELSE /\ pc' = "loop"
                 /\ idx' = idx + 1
                 /\ ignore_all_errors' = FlagAfter(ignore_all_errors, h.choice)
                 /\ UNCHANGED result
    /\ err' = "-"
    /\ UNCHANGED <<selected_files, op, destination, files, success_count,
                   sel0, flag0, retrieved, prevBatch, prevRetrieved, prevResult,
                   componentVars>>

\* futils.py:180 (212, 238): the for loop is exhausted: return success_count
Return ==
    /\ pc = "loop"
    /\ idx > Len(files)
    /\ pc' = "done"
    /\ result' = success_count
    /\ UNCHANGED <<selected_files, ignore_all_errors, op, destination, files,
                   idx, success_count, err, log, sel0, flag0, retrieved,
                   prevBatch, prevRetrieved, prevResult, componentVars>>

\* the call is over (its value returned, or its exception propagated): the
\* caller has control again and may select or start the next operation
CallerResumes ==
    /\ pc \in {"done", "raised"}
    /\ pc' = "idle"
    /\ prevBatch' = TRUE
    /\ prevRetrieved' = retrieved
    /\ prevResult' = IF pc = "done" THEN result ELSE -1
    /\ op' = "-"
    /\ destination' = "-"
    /\ files' = << >>
    /\ idx' = 1
    /\ success_count' = 0
    /\ err' = "-"
    /\ result' = 0
    /\ log' = << >>
    /\ sel0' = << >>
    /\ flag0' = FALSE
    /\ retrieved' = FALSE
    /\ UNCHANGED <<selected_files, ignore_all_errors, componentVars>>

Next ==
    \/ \E indices \in IndexLists : Select(indices)
    \/ \E dest \in Dests : copy_files(dest)
    \/ \E dest \in Dests : move_files(dest)
    \/ delete_files
    \/ ValidateItem
    \/ GatewayCall
    \/ HandleError
    \/ Return
    \/ CallerResumes

Spec == Init /\ [][Next]_vars

TypeOK ==
    /\ pc \in {"idle", "loop", "op", "handle", "done", "raised"}
    /\ ignore_all_errors \in BOOLEAN
    /\ idx \in 1..(Len(files) + 1)
    /\ success_count \in 0..Len(files)
    /\ prevResult \in -1..MaxSel

\* ------------------------------------------------------------ ConsoleUI
\* lines the user can type at "Your choice: "
Lines == {"0", "1", "2", " 1 ", "3", "-1", "x", "", "2.0"}

\* ui.py:26  int(line): the integer, or ValueError (ok = FALSE); int()
\* accepts surrounding blanks and a sign, and rejects "", "x" and "2.0"
ParseInt(line) ==
    CASE line = "0" -> [ok |-> TRUE, n |-> 0]
      [] line = "1" -> [ok |-> TRUE, n |-> 1]
      [] line = "2" -> [ok |-> TRUE, n |-> 2]
      [] line = " 1 " -> [ok |-> TRUE, n |-> 1]
      [] line = "3" -> [ok |-> TRUE, n |-> 3]
      [] line = "-1" -> [ok |-> TRUE, n |-> -1]
      [] OTHER -> [ok |-> FALSE, n |-> 0]

\* ui.py:4-6: the value of each member of the IntEnum
ErrorChoiceValue(c) ==
    CASE c = IGNORE -> 0
      [] c = IGNORE_ALL -> 1
      [] OTHER -> 2

\* variant: a number that is no member's value is clamped to the nearest member
ErrorChoiceOf_Clamped(n) ==
    IF n <= 0 THEN IGNORE ELSE IF n = 1 THEN IGNORE_ALL ELSE STOP

\* ui.py:27  ErrorChoice(choice): the member with that value, or ValueError
ErrorChoiceOf(n) ==
    IF \E c \in ErrorChoice : ErrorChoiceValue(c) = n
    THEN CHOOSE c \in ErrorChoice : ErrorChoiceValue(c) = n
    ELSE "ValueError"

\* ui.py:26-27: outcome of one pass through the try block
ConsoleRead(line) ==
    IF ParseInt(line).ok THEN ErrorChoiceOf(ParseInt(line).n) ELSE "ValueError"

\* ui.py:19-24: error_choice is called; the menu is printed, the loop begins
ConsoleErrorChoice ==
    /\ ui_pc # "input"
    /\ ui_pc' = "input"
    /\ ui_typed' = << >>
    /\ ui_ret' = "-"
    /\ ui_reprompts' = 0
    /\ UNCHANGED <<selected_files, managerVars, explorerVars, selectorVars, navigatorVars>>

\* ui.py:24-29: input() returns a line
ConsoleInput(line) ==
    /\ ui_pc = "input"
    /\ Len(ui_typed) < MaxLines
    /\ ui_typed' = Append(ui_typed, line)
    /\ IF ConsoleRead(line) = "ValueError"
       THEN /\ ui_pc' = "input"
            /\ ui_reprompts' = ui_reprompts + 1
            /\ UNCHANGED ui_ret
       ELSE /\ ui_pc' = "returned"
            /\ ui_ret' = ConsoleRead(line)
            /\ UNCHANGED ui_reprompts
    /\ UNCHANGED <<selected_files, managerVars, explorerVars, selectorVars, navigatorVars>>

\* ui.py:26: input() raises EOFError at the end of the input; except
\* ValueError does not catch it
ConsoleEOF ==
    /\ ui_pc = "input"
    /\ ui_pc' = "raised"
    /\ UNCHANGED <<ui_typed, ui_ret, ui_reprompts>>
    /\ UNCHANGED <<selected_files, managerVars, explorerVars, selectorVars, navigatorVars>>

ConsoleNext ==
    \/ ConsoleErrorChoice
    \/ \E line \in Lines : ConsoleInput(line)
    \/ ConsoleEOF

ConsoleSpec == Init /\ [][ConsoleNext]_vars

\* ------------------------------------------------- FileExplorer.subset
\* futils.py:94-101: subset is called with a list of indices
ExplorerSubset(indices) ==
    /\ ex_indices' = indices
    /\ ex_result' = subset(indices)
    /\ UNCHANGED <<selected_files, managerVars, consoleVars, selectorVars, navigatorVars>>

ExplorerNext == \E indices \in IndexLists : ExplorerSubset(indices)

ExplorerSpec == Init /\ [][ExplorerNext]_vars

\* ------------------------------------------------- FileSelector alone
\* index lists of the selector exercised on its own: indices of the listing
HeldIndexLists == UNION {[1..n -> 0..(Len(Listing) - 1)] : n \in 0..MaxHeld}

\* futils.py:31-43  select_files_by_indices: selected_files is bound to a
\* new list; a list returned earlier by get_and_reset is another object
SelectorSelect(indices) ==
    /\ selected_files' = subset(indices)
    /\ gets' = 0
    /\ UNCHANGED <<got, held0>>
    /\ UNCHANGED <<managerVars, consoleVars, explorerVars, navigatorVars>>

\* futils.py:45-49  get_and_reset called directly
SelectorGetAndReset ==
    /\ gets < MaxGets
    /\ got' = get_and_reset(selected_files).res
    /\ selected_files' = get_and_reset(selected_files).selected_files
    /\ held0' = selected_files
    /\ gets' = gets + 1
    /\ UNCHANGED <<managerVars, consoleVars, explorerVars, navigatorVars>>

SelectorNext ==
    \/ \E indices \in HeldIndexLists : SelectorSelect(indices)
    \/ SelectorGetAndReset

SelectorSpec == Init /\ [][SelectorNext]_vars

\* ------------------------------------------------ FileExplorer.navigate
\* indices the user can give to navigate
NavIndices == (-(MaxIndex + 1))..MaxIndex

\* list[index] of Python: a negative index counts from the end; an index
\* outside -len .. len-1 raises IndexError (ok = FALSE)
PyIndex(list, index) ==
    IF index \in 0..(Len(list) - 1) THEN [ok |-> TRUE, v |-> list[index + 1]]
    ELSE IF index \in (-Len(list))..(-1) THEN [ok |-> TRUE, v |-> list[Len(list) + index + 1]]
    ELSE [ok |-> FALSE, v |-> "-"]

\* futils.py:56-59  _set_current_path(path): current_path is assigned before
\* os.listdir is called; when listdir raises the old contents remain
SetCurrentPath(path, contents) ==
    [current_path |-> path,
     contents |-> IF ListDir(path).ok THEN ListDir(path).names ELSE contents,
     raised |-> ~ListDir(path).ok]

\* futils.py:75-87  navigate(index)
Navigate(index) ==
    /\ Len(nav_out) < MaxNav
    /\ nav_op' = "navigate"
    /\ nav_index' = index
    /\ path0' = current_path
    /\ contents0' = current_directory_contents
    /\ LET e == PyIndex(current_directory_contents, index)
           full_path == Join(current_path, e.v)
           set == SetCurrentPath(full_path, current_directory_contents)
       IN IF ~e.ok
          THEN /\ nav_out' = Append(nav_out, "Navigation error")
               /\ UNCHANGED <<current_path, current_directory_contents>>
          ELSE IF IsDir(full_path)
          THEN /\ current_path' = set.current_path
               /\ current_directory_contents' = set.contents
               /\ nav_out' = Append(nav_out, IF set.raised THEN "Navigation error"
                                             ELSE "Current Directory")
          ELSE /\ nav_out' = Append(nav_out, "Cannot open file")
               /\ UNCHANGED <<current_path, current_directory_contents>>
    /\ UNCHANGED <<selected_files, managerVars, consoleVars, explorerVars, selectorVars>>

\* futils.py:89-92  go_to_parent_directory; an error of os.listdir is not
\* caught here
GoToParent ==
    /\ Len(nav_out) < MaxNav
    /\ nav_op' = "parent"
    /\ nav_index' = 0
    /\ path0' = current_path
    /\ contents0' = current_directory_contents
    /\ LET set == SetCurrentPath(Dirname(current_path), current_directory_contents)
       IN /\ current_path' = set.current_path
          /\ current_directory_contents' = set.contents
          /\ nav_out' = Append(nav_out, IF set.raised THEN "PermissionError"
                                        ELSE "Current Directory")
    /\ UNCHANGED <<selected_files, managerVars, consoleVars, explorerVars, selectorVars>>

NavigatorNext ==
    \/ \E index \in NavIndices : Navigate(index)
    \/ GoToParent

NavigatorSpec == Init /\ [][NavigatorNext]_vars

\* ---------------------------------------------- observations over the log
LogIdx == 1..Len(log)

IsGateway(e) == e.kind \in GatewayKinds

\* positions of the gateway calls, of those that failed / succeeded, of the
\* prompts and of the error reports of the call
GatewayIdx == {k \in LogIdx : IsGateway(log[k])}
FailIdx == {k \in GatewayIdx : log[k].r = "fail"}
OkIdx == {k \in GatewayIdx : log[k].r = "ok"}
PromptIdx == {k \in LogIdx : log[k].kind = "prompt"}
ErrorIdx == {k \in LogIdx : log[k].kind = "error"}
ValidateIdx == {k \in LogIdx : log[k].kind = "validate"}

\* item j of the batch was validated / passed validation / was handed to the gateway
Validated(j) == \E k \in ValidateIdx : log[k].i = j
PassedValidation(j) == \E k \in ValidateIdx : log[k].i = j /\ log[k].r = "True"
Attempted(j) == \E k \in GatewayIdx : log[k].i = j

GatewayCalls == SelectSeq(log, IsGateway)

\* the gateway calls of a call that handed every item of the selection held at
\* invocation to the gateway method gw, in selection order, with (item, D)
OncePerItemInOrder(gw) ==
    /\ Len(GatewayCalls) = Len(sel0)
    /\ \A k \in 1..Len(sel0) :
         GatewayCalls[k] = Ev(gw, k, sel0[k], destination, "ok")

WithDestination == op \in {"Copy", "Move"}

ExpectedGateway == IF op = "Copy" THEN "copy" ELSE "move"

\* ------------------------------------------------------------------ C1
\* C1 as stated: whenever copy_files(D) / move_files(D) has returned and no
\* gateway call of it failed, it returned len(B), the gateway was invoked
\* once per item of B in selection order with (item, D), no error was
\* reported and no prompt issued.
C1_AsStated ==
    (pc = "done" /\ WithDestination /\ FailIdx = {})
        => /\ result = Len(sel0)
           /\ OncePerItemInOrder(ExpectedGateway)
           /\ ErrorIdx = {}
           /\ PromptIdx = {}

\* C1 amended: the same, for the calls whose destination and items all pass
\* path validation.
C1_AllValidNoFailure ==
    (/\ pc = "done"
     /\ WithDestination
     /\ FailIdx = {}
     /\ \A k \in ValidateIdx : log[k].r = "True")
        => /\ result = Len(sel0)
           /\ OncePerItemInOrder(ExpectedGateway)
           /\ ErrorIdx = {}
           /\ PromptIdx = {}

\* a copy of three items, not all the same, all valid, none failing
C1_Witness ==
    /\ pc = "done"
    /\ op = "Copy"
    /\ sel0 = <<"f1", "loop", "f1">>
    /\ FailIdx = {}
    /\ \A k \in ValidateIdx : log[k].r = "True"
    /\ result = 3

\* ------------------------------------------------------------------ C2
\* C2: when a prompt is answered with STOP at item i, the loop ends at once:
\* the prompt is the last call recorded (no later item is validated or
\* attempted, no further error or prompt), the call has returned, and the
\* value returned is the number of successful gateway calls, all of them on
\* items before i.
C2_StopEndsLoop ==
    \A k \in PromptIdx :
        log[k].r = STOP
            => /\ k = Len(log)
               /\ pc = "done"
               /\ \A m \in LogIdx : log[m].i <= log[k].i
               /\ result = Cardinality({m \in OkIdx : log[m].i < log[k].i})
               /\ result = Cardinality(OkIdx)

\* three items, the second fails and is answered with STOP: two attempts, result 1
C2_Witness ==
    /\ pc = "done"
    /\ op = "Delete"
    /\ Len(files) = 3
    /\ Len(log) > 0
    /\ log[Len(log)].kind = "prompt"
    /\ log[Len(log)].r = STOP
    /\ log[Len(log)].i = 2
    /\ Cardinality(GatewayIdx) = 2
    /\ result = 1

\* ------------------------------------------------------------------ C3
\* the failure recorded at log position m has been through the error handler
Handled(m) == ~(pc = "handle" /\ m = Len(log))

\* every item of the batch failed at the gateway and the first decision of
\* the call was IGNORE_ALL
AllFailFirstIgnoreAll ==
    /\ pc = "done"
    /\ Len(files) >= 1
    /\ \A j \in 1..Len(files) : \E m \in FailIdx : log[m].i = j
    /\ PromptIdx # {}
    /\ \A p \in PromptIdx : (\A q \in PromptIdx : p <= q) => log[p].r = IGNORE_ALL

\* C3 as stated: after a prompt returned IGNORE_ALL there is no further
\* prompt in the call, every remaining item of the batch is attempted, failed
\* items are not counted; all items failing with first decision IGNORE_ALL
\* gives exactly one prompt and result 0.
C3_AsStated ==
    /\ \A k \in PromptIdx :
         log[k].r = IGNORE_ALL
            => /\ \A p \in PromptIdx : p <= k
               /\ pc = "done" => \A j \in (log[k].i + 1)..Len(files) : Attempted(j)
               /\ \A m \in FailIdx : \A n \in OkIdx : log[m].i # log[n].i
               /\ success_count = Cardinality(OkIdx)
    /\ AllFailFirstIgnoreAll => Cardinality(PromptIdx) = 1 /\ result = 0

\* C3 amended: after a prompt returned IGNORE_ALL there is no further prompt
\* in the call, the call returns only after the loop has reached every
\* remaining item, and each remaining item that passed validation is
\* attempted (one that failed validation is skipped); failed items are not
\* counted; all items failing with first decision IGNORE_ALL gives exactly
\* one prompt and result 0.
C3_IgnoreAllNoMorePrompts ==
    /\ \A k \in PromptIdx :
         log[k].r = IGNORE_ALL
            => /\ \A p \in PromptIdx : p <= k
               /\ pc = "done" => \A j \in (log[k].i + 1)..Len(files) : Validated(j)
               /\ pc \in {"done", "raised"} =>
                     \A j \in (log[k].i + 1)..Len(files) :
                         PassedValidation(j) => Attempted(j)
               /\ \A m \in FailIdx : \A n \in OkIdx : log[m].i # log[n].i
               /\ success_count = Cardinality(OkIdx)
    /\ AllFailFirstIgnoreAll => Cardinality(PromptIdx) = 1 /\ result = 0

\* first item fails and is answered IGNORE_ALL, the second is over-length and
\* skipped, the third fails without a prompt: one prompt, result 0
C3_Witness ==
    /\ pc = "done"
    /\ files = <<"f1", "long", "f1">>
    /\ Cardinality(FailIdx) = 2
    /\ Cardinality(PromptIdx) = 1
    /\ \E k \in PromptIdx : log[k].r = IGNORE_ALL /\ log[k].i = 1
    /\ Attempted(3)
    /\ result = 0

\* ------------------------------------------------------------------ C4
\* every gateway failure of the call was answered with IGNORE
EveryFailureIgnored ==
    \A m \in FailIdx : \E p \in PromptIdx : log[p].i = log[m].i /\ log[p].r = IGNORE

\* what C4 says of one prompt answered with IGNORE, up to the later failures
IgnoreKeepsGoing(k) ==
    /\ \A n \in OkIdx : log[n].i # log[k].i
    /\ success_count = Cardinality(OkIdx)
    /\ k = Len(log) => /\ ignore_all_errors = FALSE
                       /\ idx = log[k].i + 1
                       /\ pc = "loop" \/ (pc = "done" /\ idx > Len(files))

\* C4 as stated: a failure answered with IGNORE is not counted, leaves the
\* flag unchanged, the loop continues with the next item and any later
\* failure of the call prompts again; with only IGNORE decisions every item
\* is attempted, prompts = failures and the result is the number of
\* successes.
C4_AsStated ==
    /\ \A k \in PromptIdx :
         log[k].r = IGNORE
            => /\ IgnoreKeepsGoing(k)
               /\ \A m \in FailIdx :
                     (m > k /\ Handled(m)) => \E p \in PromptIdx : log[p].i = log[m].i
    /\ (pc = "done" /\ retrieved /\ \A p \in PromptIdx : log[p].r = IGNORE)
          => /\ \A j \in 1..Len(sel0) : Attempted(j)
             /\ Cardinality(PromptIdx) = Cardinality(FailIdx)
             /\ result = Cardinality(OkIdx)

\* C4 amended: a failure answered with IGNORE is not counted, leaves the
\* flag unchanged, the loop continues with the next item and the next
\* failure of the call prompts again; when every failure of a call is
\* answered with IGNORE, the call returns after validating every item and
\* attempting each one that passed validation, prompts = failures and the
\* result is the number of successes.
C4_IgnoreOneItem ==
    /\ \A k \in PromptIdx :
         log[k].r = IGNORE
            => /\ IgnoreKeepsGoing(k)
               /\ \A m \in FailIdx :
                     (m > k /\ Handled(m) /\ \A n \in FailIdx : ~(k < n /\ n < m))
                        => \E p \in PromptIdx : log[p].i = log[m].i
    /\ (pc = "done" /\ retrieved /\ EveryFailureIgnored)
          => /\ \A j \in 1..Len(sel0) :
                   Validated(j) /\ (PassedValidation(j) => Attempted(j))
             /\ Cardinality(PromptIdx) = Cardinality(FailIdx)
             /\ result = Cardinality(OkIdx)
             /\ ignore_all_errors = flag0

\* three items, the first and the third fail and are both answered IGNORE:
\* two prompts, all three attempted, result 1
C4_Witness ==
    /\ pc = "done"
    /\ Len(files) = 3
    /\ \A j \in 1..3 : Attempted(j)
    /\ {log[m].i : m \in FailIdx} = {1, 3}
    /\ Cardinality(PromptIdx) = 2
    /\ \A p \in PromptIdx : log[p].r = IGNORE
    /\ result = 1
    /\ ~ignore_all_errors

\* ------------------------------------------------------------------ C5
\* the path is rejected by validation: over-length, or not resolvable with
\* an error validation catches
Rejected(p) == PathLen(p) > MaxPathLen \/ Resolve(p) = {"ValueError"}

\* C5: a copy_files / move_files call whose destination is rejected by path
\* validation returns 0 without any gateway call and without a prompt, and
\* reports exactly one error, the "Invalid path" report for the destination.
C5_InvalidDestination ==
    (WithDestination /\ Rejected(destination))
        => /\ pc = "done"
           /\ result = 0
           /\ GatewayIdx = {}
           /\ PromptIdx = {}
           /\ Cardinality(ErrorIdx) = 1
           /\ \A k \in ErrorIdx : log[k].a = "Invalid path" /\ log[k].i = 0

\* move_files to an over-length destination while three items are selected
C5_Witness ==
    /\ pc = "done"
    /\ op = "Move"
    /\ destination = "longdest"
    /\ Len(sel0) = 3
    /\ result = 0
    /\ Cardinality(ErrorIdx) = 1

\* ------------------------------------------------------------------ C6
\* what holds of an item (validated at log position k) that failed validation
\* apart from error reporting: no prompt and no gateway call for it, not
\* counted, and the loop goes on with the next item
SkippedAndLoopGoesOn(k) ==
    /\ \A p \in PromptIdx : log[p].i # log[k].i
    /\ ~Attempted(log[k].i)
    /\ success_count = Cardinality(OkIdx)
    /\ idx > log[k].i
    /\ pc # "raised" => pc \in {"loop", "op", "handle", "done"}
    /\ (pc = "done" /\ log[k].i < Len(files)) => Validated(log[k].i + 1)
    /\ k + 2 <= Len(log) =>
          log[k + 2].kind = "validate" /\ log[k + 2].i = log[k].i + 1

\* C6 as stated: an item that fails validation is skipped silently: no error
\* report, no prompt, no gateway call for it, not counted, loop continues.
C6_AsStated ==
    \A k \in ValidateIdx :
        (log[k].i >= 1 /\ log[k].r = "False")
            => /\ \A e \in ErrorIdx : log[e].i # log[k].i
               /\ SkippedAndLoopGoesOn(k)

\* C6 amended: an item that fails validation is reported once through
\* ui.error ("Invalid path: ...") and otherwise skipped: no prompt, no gateway
\* call for it, not counted, loop continues with the next item.
C6_InvalidItemReportedAndSkipped ==
    \A k \in ValidateIdx :
        (log[k].i >= 1 /\ log[k].r = "False")
            => /\ k + 1 <= Len(log)
               /\ log[k + 1].kind = "error"
               /\ log[k + 1].a = "Invalid path"
               /\ log[k + 1].i = log[k].i
               /\ Cardinality({e \in ErrorIdx : log[e].i = log[k].i}) = 1
               /\ SkippedAndLoopGoesOn(k)

\* an over-length item followed by a valid one: one report, one gateway call
C6_Witness ==
    /\ pc = "done"
    /\ files = <<"long", "f1">>
    /\ Cardinality(ErrorIdx) = 1
    /\ Cardinality(GatewayIdx) = 1
    /\ PromptIdx = {}
    /\ result = 1

\* ------------------------------------------------------------------ C7
\* C7 as stated: a batch call that directly follows another batch call (no
\* selection in between) returns 0 and makes no gateway call.
C7_AsStated ==
    (pc = "done" /\ prevBatch) => (result = 0 /\ GatewayIdx = {})

\* C7 amended: a batch call that directly follows a batch call which
\* retrieved the batch (delete_files, or copy_files / move_files whose
\* destination passed validation) works on an empty batch, makes no gateway
\* call and returns 0.
C7_SecondCallAfterRetrieval ==
    (pc \notin {"idle"} /\ prevRetrieved)
        => /\ sel0 = << >>
           /\ files = << >>
           /\ GatewayIdx = {}
           /\ pc \in {"loop", "done"}
           /\ pc = "done" => result = 0

\* the call before processed two items successfully; this one retrieved an
\* empty batch and returned 0
C7_Witness ==
    /\ pc = "done"
    /\ prevRetrieved
    /\ prevResult >= 2
    /\ retrieved
    /\ result = 0

\* ------------------------------------------------------------------ C8
\* C8 as stated: IGNORE_ALL does not outlive the call in which it was
\* given, so in every call the first gateway failure is put to the prompt.
C8_FirstFailurePrompts ==
    \A m \in FailIdx :
        (Handled(m) /\ \A n \in FailIdx : m <= n)
            => \E p \in PromptIdx : log[p].i = log[m].i

\* ------------------------------------------------------------------ C9
\* C9: the value returned is between 0 and the size of the selection held at
\* invocation, equals the number of gateway calls of the call that succeeded,
\* and equals the size of the selection only if no item was skipped, failed
\* or cut off by STOP.
C9_CountIsSuccesses ==
    pc = "done"
        => /\ 0 <= result
           /\ result <= Len(sel0)
           /\ result = Cardinality(OkIdx)
           /\ result = Len(sel0)
                 => /\ \A k \in ValidateIdx : log[k].i >= 1 => log[k].r = "True"
                    /\ FailIdx = {}
                    /\ \A p \in PromptIdx : log[p].r # STOP

\* three items: one over-length and skipped, one succeeds, one fails
C9_Witness ==
    /\ pc = "done"
    /\ Len(sel0) = 3
    /\ result = 1
    /\ Cardinality(FailIdx) = 1
    /\ \E k \in ValidateIdx : log[k].i >= 1 /\ log[k].r = "False"

\* ------------------------------------------------------------------ C10
\* C10 as stated: a batch call never propagates an error to its caller.
C10_NeverPropagates == pc # "raised"

\* ------------------------------------------------------------------ C11
\* the operation-name label of the call that made the gateway call e
LabelOfGateway(e) ==
    CASE e.kind = "copy" -> "Copy"
      [] e.kind = "move" -> "Move"
      [] OTHER -> "Delete"

\* the message "<OperationName>: <error message>" as the pair ui.error and
\* ui.error_choice receive it in the recorded call c
MessageOf(c) == <<c.a, c.b>>

\* C11: every gateway failure is reported exactly once through ui.error, the
\* report directly follows the failed gateway call and carries the operation
\* name of the running operation and the message of the exception raised; a
\* prompt for that failure comes after the report and receives the same
\* message; the report is made whether or not the ignore-all flag is set.
C11_FailureReportedOnce ==
    \A m \in FailIdx :
        Handled(m)
            => /\ m + 1 <= Len(log)
               /\ log[m + 1].kind = "error"
               /\ log[m + 1].i = log[m].i
               /\ MessageOf(log[m + 1])
                     = <<LabelOfGateway(log[m]), ExcMsg(GatewayFailure(log[m].a))>>
               /\ log[m + 1].a = op
               /\ Cardinality({e \in ErrorIdx : log[e].i = log[m].i}) = 1
               /\ \A p \in PromptIdx :
                     log[p].i = log[m].i
                        => p = m + 2 /\ MessageOf(log[p]) = MessageOf(log[m + 1])

\* a move started with the flag set: both items fail with different
\* exceptions, both are reported, neither is prompted
C11_Witness ==
    /\ pc = "done"
    /\ op = "Move"
    /\ flag0
    /\ files = <<"f1", "loop">>
    /\ Cardinality(FailIdx) = 2
    /\ {MessageOf(log[e]) : e \in ErrorIdx}
          = {<<"Move", "Disk full">>, <<"Move", "Network timeout">>}
    /\ PromptIdx = {}

\* ------------------------------------------------------------------ C12
\* C12: the destination of copy_files / move_files is validated first and
\* every item is validated before it is handed to the gateway; a path longer
\* than 255 characters is rejected; every rejection is reported through
\* ui.error as "Invalid path: ...", with "Path too long" for an over-length
\* path; a batch whose only item is over-length returns 0 with that report
\* and no gateway call.
C12_ValidationRule ==
    /\ (WithDestination /\ pc # "idle")
          => /\ Len(log) >= 1
             /\ log[1] = Ev("validate", 0, destination, "-", log[1].r)
    /\ \A g \in GatewayIdx :
          /\ g > 1
          /\ log[g - 1] = Ev("validate", log[g].i, files[log[g].i], "-", "True")
          /\ log[g].a = files[log[g].i]
    /\ \A k \in ValidateIdx :
          /\ PathLen(log[k].a) > MaxPathLen => log[k].r = "False"
          /\ log[k].r = "False"
                => /\ k + 1 <= Len(log)
                   /\ log[k + 1].kind = "error"
                   /\ log[k + 1].a = "Invalid path"
                   /\ PathLen(log[k].a) > MaxPathLen => log[k + 1].b = "Path too long"
    /\ (pc = "done" /\ retrieved /\ Len(files) = 1 /\ PathLen(files[1]) > MaxPathLen)
          => /\ result = 0
             /\ GatewayIdx = {}
             /\ \E e \in ErrorIdx : log[e].i = 1 /\ MessageOf(log[e]) = <<"Invalid path", "Path too long">>

\* copy of a batch whose only item is over-length, to a valid destination
C12_Witness ==
    /\ pc = "done"
    /\ op = "Copy"
    /\ destination = "/dest"
    /\ files = <<"long">>
    /\ result = 0
    /\ GatewayIdx = {}
    /\ Cardinality(ErrorIdx) = 1

\* ------------------------------------------------------------------ C13
\* the line selects one of the three choices: it is an integer and 0, 1 or 2
SelectsChoice(line) == ParseInt(line).ok /\ ParseInt(line).n \in {0, 1, 2}

\* C13: ConsoleUI.error_choice prompts again after every line that is not an
\* integer or is an integer outside 0..2, printing the request for a valid
\* number each time; such a line never becomes a decision; the call returns
\* at the first line that selects a choice, with the choice of that number.
C13_RePromptUntilValid ==
    /\ ui_reprompts = Cardinality({k \in 1..Len(ui_typed) : ~SelectsChoice(ui_typed[k])})
    /\ ui_pc \in {"input", "raised"}
          => /\ ui_ret = "-"
             /\ \A k \in 1..Len(ui_typed) : ~SelectsChoice(ui_typed[k])
    /\ ui_pc = "returned"
          => /\ Len(ui_typed) >= 1
             /\ SelectsChoice(ui_typed[Len(ui_typed)])
             /\ ui_ret \in ErrorChoice
             /\ ErrorChoiceValue(ui_ret) = ParseInt(ui_typed[Len(ui_typed)]).n
             /\ \A k \in 1..(Len(ui_typed) - 1) : ~SelectsChoice(ui_typed[k])

\* a non-integer, then an integer out of range, then a valid choice
C13_Witness ==
    /\ ui_pc = "returned"
    /\ ui_typed = <<"x", "3", " 1 ">>
    /\ ui_ret = IGNORE_ALL
    /\ ui_reprompts = 2

\* ------------------------------------------------------------------ C14
\* positions of the indices that lie in 0 .. len(contents) - 1
InRangePositions == {k \in 1..Len(ex_indices) : ex_indices[k] \in 0..(Len(Listing) - 1)}

\* C14: FileExplorer.subset returns, in the order of the given indices, the
\* path of the entry at each index within the listing, once per occurrence;
\* indices outside the listing (negative, or >= its length) contribute nothing.
C14_SubsetInRangeInOrder ==
    /\ Len(ex_result) = Cardinality(InRangePositions)
    /\ \A k \in InRangePositions :
          ex_result[Cardinality({j \in InRangePositions : j <= k})] = Listing[ex_indices[k] + 1]

\* a duplicate index, a negative index and the index len(contents)
C14_Witness ==
    /\ ex_indices = <<2, -1, 2>>
    /\ ex_result = <<"loop", "loop">>

\* ------------------------------------------------------------------ C15
\* C15: get_and_reset returns the held selection in order and leaves the held
\* selection empty; with nothing selected it returns the empty list; a second
\* call in a row returns the empty list; the list it returned is not changed
\* by the reset nor by a later selection.
C15_TakeAndReset ==
    /\ got = held0
    /\ gets >= 1 => selected_files = << >>
    /\ gets >= 2 => got = << >>

\* a selection of two entries was retrieved
C15_Witness ==
    /\ gets = 1
    /\ got = <<"f1", "loop">>
    /\ selected_files = << >>

\* ------------------------------------------------------------------ C16
\* C16: a call of copy_files / move_files with a valid destination, or of
\* delete_files, made while the selector holds nothing makes no gateway call,
\* no error report and no prompt, and returns 0.
C16_EmptySelection ==
    (pc # "idle" /\ sel0 = << >> /\ (WithDestination => ~Rejected(destination)))
        => /\ pc \in {"loop", "done"}
           /\ retrieved
           /\ files = << >>
           /\ GatewayIdx = {}
           /\ ErrorIdx = {}
           /\ PromptIdx = {}
           /\ pc = "done" => result = 0

\* move_files with a valid destination and nothing selected has returned
C16_Witness ==
    /\ pc = "done"
    /\ op = "Move"
    /\ destination = "/dest"
    /\ sel0 = << >>
    /\ retrieved
    /\ result = 0
    /\ Len(log) = 1

\* ------------------------------------------------------------------ C17
\* the step appends a prompt answered IGNORE_ALL as the last recorded call
PromptAnsweredIgnoreAll ==
    /\ Len(log') > Len(log)
    /\ log'[Len(log')].kind = "prompt"
    /\ log'[Len(log')].r = IGNORE_ALL

\* C17: ignore_all_errors is false at construction; a step that makes it
\* true is a prompt answered IGNORE_ALL; no step (of any call, nor between
\* calls) makes it false again.
C17_FlagPersists ==
    /\ ~ignore_all_errors
    /\ [][/\ ignore_all_errors => ignore_all_errors'
          /\ (~ignore_all_errors /\ ignore_all_errors') => PromptAnsweredIgnoreAll]_vars

\* a later batch call, started with the flag set by an earlier call, has
\* met a failure and returned with the flag still set
C17_Witness ==
    /\ pc = "done"
    /\ prevBatch
    /\ flag0
    /\ ignore_all_errors
    /\ FailIdx # {}

\* ------------------------------------------------------------------ C18
\* C18: copy_files / move_files with an invalid destination return without
\* retrieving the batch: the selector holds the selection it held at the
\* call, it still holds it when the caller resumes, and the next batch
\* operation (no selection in between) retrieves exactly that selection.
C18_InvalidDestinationKeepsSelection ==
    /\ []((pc = "done" /\ WithDestination /\ Rejected(destination))
            => /\ ~retrieved
               /\ selected_files = sel0
               /\ GatewayIdx = {})
    /\ [][/\ (pc = "done" /\ ~retrieved /\ pc' = "idle")
               => /\ selected_files' = sel0
                  /\ prevBatch' /\ ~prevRetrieved'
          /\ (pc = "idle" /\ prevBatch /\ ~prevRetrieved /\ pc' # "idle")
               => /\ sel0' = selected_files
                  /\ retrieved' => files' = selected_files /\ selected_files' = << >>]_vars

\* after a call rejected for its destination, the next batch operation
\* processed the two items still held
C18_Witness ==
    /\ pc = "done"
    /\ prevBatch
    /\ ~prevRetrieved
    /\ prevResult = 0
    /\ retrieved
    /\ Len(files) = 2
    /\ result = 2

\* ------------------------------------------------------------------ C19
\* C19: in a call entered with ignore_all_errors set there is no prompt (so
\* no STOP decision); the call returns only when the loop is exhausted: every
\* item was validated and every item that passed validation was handed to the
\* gateway, whatever the number of failures.
C19_NoPromptNoStop ==
    (pc # "idle" /\ flag0)
        => /\ PromptIdx = {}
           /\ \A j \in 1..Len(files) :
                 PassedValidation(j) => (Attempted(j) \/ (pc = "op" /\ idx = j))
           /\ (pc = "done" /\ retrieved)
                 => /\ idx = Len(files) + 1
                    /\ \A j \in 1..Len(files) : Validated(j)

\* three items, every gateway call failed, the call went through all of them
C19_Witness ==
    /\ pc = "done"
    /\ flag0
    /\ Len(files) = 3
    /\ Cardinality(FailIdx) = 3
    /\ PromptIdx = {}
    /\ result = 0

\* ------------------------------------------------------------------ C20
\* a recorded call with the operation taken out: the gateway method becomes
\* "attempt", labels, paths and messages are dropped
Abstract(kind, i, r) == [kind |-> kind, i |-> i, r |-> r]

AbstractOf(e) == Abstract(IF IsGateway(e) THEN "attempt" ELSE e.kind, e.i, e.r)

\* the calls made for the items of the batch (the destination check left out)
ItemEvents == SelectSeq(log, LAMBDA e : e.i >= 1)

Observed == [k \in 1..Len(ItemEvents) |-> AbstractOf(ItemEvents[k])]

\* what the environment answered for item j during the call: the result of
\* its validation, the outcome of its gateway call, the decision of its prompt
ValidityOf(j) ==
    IF \E k \in ValidateIdx : log[k].i = j
    THEN log[CHOOSE k \in ValidateIdx : log[k].i = j].r
    ELSE "none"

OutcomeOf(j) ==
    IF \E k \in GatewayIdx : log[k].i = j
    THEN log[CHOOSE k \in GatewayIdx : log[k].i = j].r
    ELSE "none"

DecisionOf(j) ==
    IF \E k \in PromptIdx : log[k].i = j
    THEN log[CHOOSE k \in PromptIdx : log[k].i = j].r
    ELSE "none"

Then(evs, rest) == [rest EXCEPT !.trace = evs \o rest.trace]

RECURSIVE OneAlgorithm(_, _, _)
\* the run that the selection, the initial flag and the answers determine,
\* from item j on, with no reference to the operation: the calls in order,
\* the final flag and the count
OneAlgorithm(j, flag, count) ==
    IF j > Len(files) THEN [trace |-> << >>, flag |-> flag, count |-> count]
    ELSE
      CASE ValidityOf(j) = "False" ->
             Then(<<Abstract("validate", j, "False"), Abstract("error", j, "-")>>,
                  OneAlgorithm(j + 1, flag, count))
        [] ValidityOf(j) = "raise" ->
             [trace |-> <<Abstract("validate", j, "raise")>>, flag |-> flag, count |-> count]
        [] ValidityOf(j) = "True" /\ OutcomeOf(j) = "ok" ->
             Then(<<Abstract("validate", j, "True"), Abstract("attempt", j, "ok")>>,
                  OneAlgorithm(j + 1, flag, count + 1))
        [] ValidityOf(j) = "True" /\ OutcomeOf(j) = "fail" /\ flag ->
             Then(<<Abstract("validate", j, "True"), Abstract("attempt", j, "fail"),
                    Abstract("error", j, "-")>>,
                  OneAlgorithm(j + 1, flag, count))
        [] ValidityOf(j) = "True" /\ OutcomeOf(j) = "fail" /\ ~flag /\ DecisionOf(j) = STOP ->
             [trace |-> <<Abstract("validate", j, "True"), Abstract("attempt", j, "fail"),
                          Abstract("error", j, "-"), Abstract("prompt", j, STOP)>>,
              flag |-> flag, count |-> count]
        [] ValidityOf(j) = "True" /\ OutcomeOf(j) = "fail" /\ ~flag
             /\ DecisionOf(j) \in {IGNORE, IGNORE_ALL} ->
             Then(<<Abstract("validate", j, "True"), Abstract("attempt", j, "fail"),
                    Abstract("error", j, "-"), Abstract("prompt", j, DecisionOf(j))>>,
                  OneAlgorithm(j + 1, DecisionOf(j) = IGNORE_ALL, count))
        [] OTHER ->
             [trace |-> <<Abstract("missing", j, "-")>>, flag |-> flag, count |-> count]

\* the gateway method that belongs to the running operation
OwnGatewayKind ==
    CASE op = "Copy" -> "copy"
      [] op = "Move" -> "move"
      [] OTHER -> "delete"

\* C20: once copy_files / move_files (valid destination) or delete_files is
\* over, the calls it made for the items, the flag it leaves and the count it
\* returns are those determined by the selection, the initial flag, the
\* validity / failure pattern and the decisions alone, the same for the
\* three operations; the operation shows only in the gateway method called
\* (with the destination for copy and move) and in the label of its reports.
C20_SameAlgorithm ==
    (pc \in {"done", "raised"} /\ retrieved)
        => /\ files = sel0
           /\ Observed = OneAlgorithm(1, flag0, 0).trace
           /\ ignore_all_errors = OneAlgorithm(1, flag0, 0).flag
           /\ pc = "done" => result = OneAlgorithm(1, flag0, 0).count
           /\ \A g \in GatewayIdx :
                 /\ log[g].kind = OwnGatewayKind
                 /\ log[g].b = destination
           /\ \A k \in ErrorIdx \cup PromptIdx :
                 log[k].a = (IF log[k - 1].kind = "validate" THEN "Invalid path" ELSE op)

\* delete_files: a failure answered IGNORE_ALL, an invalid item, a second
\* failure that is not prompted
C20_Witness ==
    /\ pc = "done"
    /\ op = "Delete"
    /\ ~flag0
    /\ files = <<"f1", "long", "f1">>
    /\ Cardinality(FailIdx) = 2
    /\ Cardinality(PromptIdx) = 1
    /\ ignore_all_errors
    /\ result = 0

\* ------------------------------------------------------------------ C21
\* C21: the calls recorded during one batch call go through the items in
\* selection order and never go back: each item is handed to the gateway at
\* most once, with the path the selection holds at that position, and when an
\* item is validated every failure of an earlier item has already been
\* reported, and every prompt recorded belongs to an earlier step.
C21_SequentialNoRetry ==
    /\ \A k \in LogIdx : \A m \in LogIdx : k < m => log[k].i <= log[m].i
    /\ \A g \in GatewayIdx :
          /\ log[g].i \in 1..Len(sel0)
          /\ log[g].a = sel0[log[g].i]
          /\ \A h \in GatewayIdx : log[h].i = log[g].i => h = g
    /\ \A k \in ValidateIdx : \A m \in FailIdx :
          (log[k].i >= 1 /\ log[m].i < log[k].i)
              => /\ m + 1 < k
                 /\ log[m + 1].kind = "error"
                 /\ log[m + 1].i = log[m].i
    /\ \A p \in PromptIdx :
          /\ p >= 3
          /\ log[p - 1].kind = "error"
          /\ log[p - 2].kind \in GatewayKinds
          /\ log[p - 2].r = "fail"
          /\ log[p - 2].i = log[p].i

\* three items: the first fails and is ignored, the second succeeds, the
\* third fails and is ignored; three gateway calls in selection order
C21_Witness ==
    /\ pc = "done"
    /\ op = "Copy"
    /\ sel0 = <<"loop", "f1", "loop">>
    /\ Len(GatewayCalls) = 3
    /\ Cardinality(FailIdx) = 2
    /\ Cardinality(PromptIdx) = 2
    /\ result = 1

\* ------------------------------------------------------------------ C22
\* the index given to the last navigate call was an index of the listing
\* (0 .. len - 1) and the entry there was a directory
ValidDirectoryIndex ==
    /\ nav_index \in 0..(Len(contents0) - 1)
    /\ IsDir(Join(path0, contents0[nav_index + 1]))

\* C22: after navigate(index), when index is negative or >= the length of
\* the listing, or the entry at index is not a directory, current_path and
\* current_directory_contents are what they were before the call.
C22_NavigateFrame ==
    (nav_op = "navigate" /\ ~ValidDirectoryIndex)
        => /\ current_path = path0
           /\ current_directory_contents = contents0
====
